---- MODULE Spec2Model ----
(***************************************************************************)
(* Model of the token registry (TokenModule), of the client's TTL caches   *)
(* (GfxCpmmClient: token list and epoch info), of endlessRetry and of the  *)
(* pool layouts (CpmmConfigInfoLayout, CpmmPoolInfoLayout) of gamma-sdk.   *)
(* Each part has its own specification: Spec, SpecCache, SpecEpoch,        *)
(* SpecRetry, SpecLayout.                                                  *)
(*                                                                         *)
(* JavaScript runs the tasks on one thread: a task keeps the thread from   *)
(* one await to the next.  `cpu` names the task that is inside a           *)
(* synchronous section; every other task can only step when cpu = NoTask.  *)
(* A task slot holds one call; a completed call stays in its slot, with    *)
(* its result, until the next call starts there.                           *)
(***************************************************************************)
EXTENDS Integers, Sequences, FiniteSets, TLC

(* ---------------------------- bounds ---------------------------------- *)
MaxCalls == 3        \* calls started in one behaviour
MaxTicks == 2        \* clock advances in one behaviour
MaxAttempts == 4     \* invocations of call() in one endlessRetry

(* ------------------------- program constants -------------------------- *)
DefaultCacheTime == 300000      \* 5 * 60 * 1000
DefaultInterval == 1000         \* endlessRetry: interval = 1000
EpochCacheTime == 30000         \* fetchEpochInfo: 1000 * 30

Undef == "undefined"
TOKEN_PROGRAM_ID == "TokenkegQf"
TOKEN_2022_PROGRAM_ID == "TokenzQdBN"
CustomProgram == "CustomProg"

Native == "So11111111"
MintA == "MintAaaaaa"
Mints == {"", "sol", MintA}

NoTask == "none"
Tasks == {"t1", "t2"}

(* a string as the sequence of its characters *)
Chars(s) ==
  CASE s = Native -> <<"S", "o", "1", "1", "1", "1", "1", "1", "1", "1">>
    [] s = MintA -> <<"M", "i", "n", "t", "A", "a", "a", "a", "a", "a">>
    [] s = "sol" -> <<"s", "o", "l">>
    [] OTHER -> <<>>

Min(a, b) == IF a < b THEN a ELSE b

(* a substring that stops one character early *)
SubstringShort(s, start, end) ==
  SubSeq(Chars(s), Min(start, Len(Chars(s))) + 1, Min(end, Len(Chars(s))) - 1)

(* s.substring(start, end), for 0 <= start <= end: the characters from    *)
(* index start up to, not including, index end                            *)
Substring(s, start, end) ==
  SubSeq(Chars(s), Min(start, Len(Chars(s))) + 1, Min(end, Len(Chars(s))))

(* mintStr.toLocaleUpperCase() on the inputs of the model *)
ToUpper(s) ==
  CASE s = "sol" -> "SOL"
    [] s = Native -> "SO11111111"
    [] s = MintA -> "MINTAAAAAA"
    [] OTHER -> s

(* the native-asset record *)
SOL_INFO ==
  [address |-> Native, ver |-> 0, symbol |-> <<"W", "S", "O", "L">>,
   name |-> <<"W", "r", "a", "p", "p", "e", "d">>, decimals |-> 9,
   programId |-> TOKEN_PROGRAM_ID, t22 |-> FALSE, type |-> "official", priority |-> 0]

(* a token as the API serves it: `ver` stands for the payload fields;       *)
(* symbol and name are character sequences;                                 *)
(* (name, logo, extensions); programId may be missing; t22 is               *)
(* tags.includes("token-2022"); it has no type and no priority (-1)         *)
ApiToken(a, v) ==
  [address |-> a, ver |-> v, symbol |-> <<"S", "Y", "M">>,
   name |-> <<"N", "a", "m", "e">>, decimals |-> 6,
   programId |-> IF v % 2 = 1 THEN Undef ELSE CustomProgram,
   t22 |-> (a = MintA), type |-> Undef, priority |-> -1]

(* the answers of the external token-list API: empty, the native address, *)
(* another address, both, and one address twice                           *)
JupLists ==
  { <<>>,
    <<ApiToken(Native, 1)>>,
    <<ApiToken(MintA, 1)>>,
    <<ApiToken(MintA, 2), ApiToken(Native, 2)>>,
    <<ApiToken(MintA, 1), ApiToken(MintA, 2)>> }

(* the curated lists a TokenModule may hold *)
ExtraLists ==
  { <<>>,
    <<ApiToken(Native, 3)>>,
    <<ApiToken(MintA, 3), ApiToken(MintA, 4)>> }

(* ------------------------ JavaScript Map ------------------------------ *)
(* a Map is the sequence of its entries in insertion order *)
MapHas(m, k) == \E i \in 1..Len(m) : m[i].k = k
MapIndex(m, k) == CHOOSE i \in 1..Len(m) : m[i].k = k
MapGet(m, k) == m[MapIndex(m, k)].v
MapSet(m, k, v) ==
  IF MapHas(m, k)
  THEN [m EXCEPT ![MapIndex(m, k)] = [k |-> k, v |-> v]]
  ELSE Append(m, [k |-> k, v |-> v])
MapKeys(m) == {m[i].k : i \in 1..Len(m)}
MapValues(m) == [i \in 1..Len(m) |-> m[i].v]

(* ------------------------ TokenModule.load ---------------------------- *)
JupProgramId(token) ==
  IF token.programId # Undef THEN token.programId
  ELSE IF token.t22 THEN TOKEN_2022_PROGRAM_ID ELSE TOKEN_PROGRAM_ID

JupRecord(token) ==
  [token EXCEPT !.type = "jupiter", !.priority = 1, !.programId = JupProgramId(token)]

(* token.programId || token.tags.includes("token-2022") ? A : B  parses as *)
(* (token.programId || includes) ? A : B                                   *)
ExtraProgramId(token) ==
  IF token.programId # Undef \/ token.t22 THEN TOKEN_2022_PROGRAM_ID ELSE TOKEN_PROGRAM_ID

ExtraRecord(token) ==
  [token EXCEPT !.type = "extra", !.priority = 1, !.programId = ExtraProgramId(token)]

RECURSIVE MergeJup(_, _)
MergeJup(m, list) ==
  IF list = <<>> THEN m
  ELSE MergeJup(MapSet(m, Head(list).address, JupRecord(Head(list))), Tail(list))

(* a merge in which a curated entry does not replace a record already stored *)
RECURSIVE MergeExtraKeep(_, _)
MergeExtraKeep(m, list) ==
  IF list = <<>> THEN m
  ELSE MergeExtraKeep(IF MapHas(m, Head(list).address) THEN m
                      ELSE MapSet(m, Head(list).address, ExtraRecord(Head(list))),
                      Tail(list))

RECURSIVE MergeExtra(_, _)
MergeExtra(m, list) ==
  IF list = <<>> THEN m
  ELSE MergeExtra(MapSet(m, Head(list).address, ExtraRecord(Head(list))), Tail(list))

(* a provenance set that takes only the addresses of its list *)
AddrsOf(list) == {list[i].address : i \in 1..Len(list)}

(* a forEach that leaves out the address the official source already has *)
AddAllExclusive(set, list) == set \cup (AddrsOf(list) \ {SOL_INFO.address})

(* list.forEach((token) => set.add(token.address)) *)
AddAll(set, list) == set \cup AddrsOf(list)

(* a reset that keeps the old table and patches it *)
ResetMapKeep(old) == old

(* this._tokenMap = new Map() *)
ResetMap(old) == <<>>

(* a reset that keeps the old provenance sets *)
ResetGroupKeep(old) == old

(* this._mintGroup = { official: new Set(), jup: new Set(), extra: new Set() } *)
ResetGroup(old) == [official |-> {}, jup |-> {}, extra |-> {}]

(* ------------------------ client cache -------------------------------- *)
(* apiCacheTime || 5 * 60 * 1000 : an option is <<>> or <<n>> *)
OrDefault(opt, d) == IF opt = <<>> \/ opt[1] = 0 THEN d ELSE opt[1]

(* a validity test that is exclusive at exactly the cache time *)
isCacheInvalidateAtTtl(time, nowMs, cacheTime) == nowMs - time >= cacheTime

isCacheInvalidate(time, nowMs, cacheTime) == nowMs - time > cacheTime

NewCacheEntry(nowMs, list) == [fetched |-> nowMs, data |-> list]

(* the value fetchJupTokenList completes with when the request throws *)
JupFailureResult(prev) == <<>>

(* a catch block that drops the entry *)
CacheOnFailureCleared(prev) == <<>>

(* apiData.jupTokenList after the catch block, which does not write it *)
CacheOnFailure(prev) == prev

(* a load that awaits between the reset and the merge *)
SuspendsInMerge(p) ==
  p \in {"idle", "awaitJup", "resume", "mergeJup", "awaitApi", "awaitLedger", "done"}

(* program points at which a task is suspended and the thread is free *)
Suspends(p) == p \in {"idle", "awaitJup", "resume", "awaitApi", "awaitLedger", "done"}

(* --------------------------- state ------------------------------------ *)
VARIABLES
  cfg,            \* ClientLoadParams: apiRequestInterval, apiCacheTime
  apiCacheTime,   \* GfxCpmmClient._apiCacheTime
  jupTokenList,   \* GfxCpmmClient.apiData.jupTokenList: <<>> or <<entry>>
  now,            \* Date.now()
  tokenList,      \* TokenModule._tokenList
  tokenMap,       \* TokenModule._tokenMap
  mintGroup,      \* TokenModule._mintGroup
  extraTokenList, \* TokenModule._extraTokenList
  tasks,          \* the asynchronous calls in progress
  cpu,            \* the task inside a synchronous section
  ticks,          \* clock advances so far
  retryPc,        \* endlessRetry: program point of the call
  interval,       \* endlessRetry: the interval argument
  result,         \* endlessRetry: the local `result`
  invocations,    \* endlessRetry: invocations of call() so far
  sleeps,         \* endlessRetry: completed sleep(interval) so far
  errorsLogged,   \* endlessRetry: logger.error lines so far
  outcomes,       \* endlessRetry: how each invocation of call() ended
  returned,       \* endlessRetry: <<>> or <<the value returned>>
  epochInfo,      \* GfxCpmmClient._epochInfo: <<>> or <<entry>>
  etasks,         \* the fetchEpochInfo calls in progress
  layoutPc,       \* layout codec: program point
  schema,         \* layout codec: the layout in use
  buf,            \* layout codec: the buffer given to decode
  decoded,        \* layout codec: the decoded record
  encoded         \* layout codec: the buffer encode produced

retryVars == <<retryPc, interval, result, invocations, sleeps, errorsLogged, outcomes,
               returned>>
epochVars == <<epochInfo, etasks>>
layoutVars == <<layoutPc, schema, buf, decoded, encoded>>
registryVars == <<cfg, apiCacheTime, jupTokenList, now, tokenList, tokenMap, mintGroup,
                  extraTokenList, tasks, cpu, ticks>>

vars == <<cfg, apiCacheTime, jupTokenList, now, tokenList, tokenMap, mintGroup,
          extraTokenList, tasks, cpu, ticks, retryVars, epochVars, layoutVars>>

(* a call: its arguments (force, mint), its program point, its locals and  *)
(* result (jup, tok, err), and its history: the number of calls started in *)
(* its slot (n), the requests it issued (apiCalls, ledgerCalls), whether   *)
(* its token-list request failed, and what the metadata API (api) and the  *)
(* ledger (ledger) answered: "none", "empty"/"absent", "found" or "error"  *)
IdleTask ==
  [kind |-> "none", pc |-> "idle", force |-> FALSE, mint |-> "", jup |-> <<>>,
   tok |-> <<>>, err |-> "", n |-> 0, apiCalls |-> 0, ledgerCalls |-> 0,
   failed |-> FALSE, api |-> "none", ledger |-> "none"]

RECURSIVE SumCalls(_, _)
SumCalls(ts, S) ==
  IF S = {} THEN 0
  ELSE LET t == CHOOSE x \in S : TRUE IN ts[t].n + SumCalls(ts, S \ {t})

(* calls started so far *)
calls == SumCalls(tasks, Tasks)

(* the configurations of the client: apiRequestInterval is merged with its *)
(* default, apiCacheTime may be absent                                      *)
Configs ==
  { [apiRequestInterval |-> DefaultCacheTime, apiCacheTime |-> <<>>],
    [apiRequestInterval |-> -1, apiCacheTime |-> <<>>],
    [apiRequestInterval |-> -1, apiCacheTime |-> <<-1>>],
    [apiRequestInterval |-> 0, apiCacheTime |-> <<0>>],
    [apiRequestInterval |-> DefaultCacheTime, apiCacheTime |-> <<1>>] }

(* a fetchEpochInfo call: its program point, the Date.now() it read before *)
(* the await (fetched), its result (value, err) and its history: the       *)
(* number of calls started in its slot (n), the ledger requests issued and *)
(* how the ledger answered ("none", "ok" or "error")                       *)
IdleEpochTask ==
  [pc |-> "idle", fetched |-> 0, value |-> <<>>, err |-> "", n |-> 0, ledgerCalls |-> 0,
   ledger |-> "none"]

(* no endlessRetry call yet *)
InitRetry ==
  /\ retryPc = "idle"
  /\ interval = 0
  /\ result = Undef
  /\ invocations = 0
  /\ sleeps = 0
  /\ errorsLogged = 0
  /\ outcomes = <<>>
  /\ returned = <<>>

(* private _epochInfo?: undefined after construction *)
InitEpoch ==
  /\ epochInfo = <<>>
  /\ etasks = [t \in Tasks |-> IdleEpochTask]

(* no buffer decoded yet *)
InitLayout ==
  /\ layoutPc = "idle"
  /\ schema = "none"
  /\ buf = <<>>
  /\ decoded = <<>>
  /\ encoded = <<>>

Init ==
  /\ InitRetry
  /\ InitEpoch
  /\ InitLayout
  /\ cfg \in Configs
  /\ apiCacheTime = OrDefault(cfg.apiCacheTime, DefaultCacheTime)
  /\ jupTokenList = <<>>
  /\ now = 0
  /\ tokenList = <<>>
  /\ tokenMap = <<>>
  /\ mintGroup = [official |-> {}, jup |-> {}, extra |-> {}]
  /\ extraTokenList \in ExtraLists
  /\ tasks = [t \in Tasks |-> IdleTask]
  /\ cpu = NoTask
  /\ ticks = 0

(* what the task does once fetchJupTokenList has completed with `list` *)
AfterFetch(task, list) ==
  [task EXCEPT !.jup = list, !.pc = IF task.kind = "load" THEN "resume" ELSE "done"]

(* load(params) / fetchJupTokenList(forceUpdate), up to the first await *)
CallFetchJupTokenList(t, kind, force) ==
  /\ cpu = NoTask
  /\ tasks[t].pc \in {"idle", "done"}
  /\ calls < MaxCalls
  /\ LET started == [IdleTask EXCEPT !.kind = kind, !.force = force,
                                     !.n = tasks[t].n + 1]
     IN IF /\ jupTokenList # <<>>
           /\ ~isCacheInvalidate(jupTokenList[1].fetched, now, apiCacheTime)
           /\ ~force
        THEN tasks' = [tasks EXCEPT ![t] = AfterFetch(started, jupTokenList[1].data)]
        ELSE tasks' = [tasks EXCEPT ![t] = [started EXCEPT !.pc = "awaitJup", !.apiCalls = 1]]
  /\ UNCHANGED <<retryVars, epochVars, layoutVars, cfg, apiCacheTime, jupTokenList, now, tokenList, tokenMap, mintGroup,
                 extraTokenList, cpu, ticks>>

(* api.getJupTokenList() resolves with `list` *)
JupListOk(t, list) ==
  /\ cpu = NoTask
  /\ tasks[t].pc = "awaitJup"
  /\ jupTokenList' = <<NewCacheEntry(now, list)>>
  /\ tasks' = [tasks EXCEPT ![t] = AfterFetch(tasks[t], jupTokenList'[1].data)]
  /\ UNCHANGED <<retryVars, epochVars, layoutVars, cfg, apiCacheTime, now, tokenList, tokenMap, mintGroup,
                 extraTokenList, cpu, ticks>>

(* api.getJupTokenList() rejects: catch (e) { console.error(e); return []; } *)
JupListFail(t) ==
  /\ cpu = NoTask
  /\ tasks[t].pc = "awaitJup"
  /\ tasks' = [tasks EXCEPT ![t] =
                 AfterFetch([tasks[t] EXCEPT !.failed = TRUE], JupFailureResult(jupTokenList))]
  /\ jupTokenList' = CacheOnFailure(jupTokenList)
  /\ UNCHANGED <<retryVars, epochVars, layoutVars, cfg, apiCacheTime, now, tokenList, tokenMap, mintGroup,
                 extraTokenList, cpu, ticks>>

(* the thread after a step of task t that ends at program point p *)
Thread(t, p) == IF Suspends(p) THEN NoTask ELSE t

(* load: `// reset all data` and the native entry *)
LoadReset(t) ==
  /\ cpu = NoTask
  /\ tasks[t].pc = "resume"
  /\ tokenList' = <<>>
  /\ tokenMap' = MapSet(ResetMap(tokenMap), SOL_INFO.address, SOL_INFO)
  /\ mintGroup' = [ResetGroup(mintGroup) EXCEPT !.official = @ \cup {SOL_INFO.address}]
  /\ tasks' = [tasks EXCEPT ![t].pc = "mergeJup"]
  /\ cpu' = Thread(t, "mergeJup")
  /\ UNCHANGED <<retryVars, epochVars, layoutVars, cfg, apiCacheTime, jupTokenList, now, extraTokenList, ticks>>

(* load: jup.forEach *)
LoadJup(t) ==
  /\ cpu \in {t, NoTask}
  /\ tasks[t].pc = "mergeJup"
  /\ tokenMap' = MergeJup(tokenMap, tasks[t].jup)
  /\ mintGroup' = [mintGroup EXCEPT !.jup = AddAll(@, tasks[t].jup)]
  /\ tasks' = [tasks EXCEPT ![t].pc = "mergeExtra"]
  /\ cpu' = Thread(t, "mergeExtra")
  /\ UNCHANGED <<retryVars, epochVars, layoutVars, cfg, apiCacheTime, jupTokenList, now, tokenList, extraTokenList, ticks>>

(* load: this._extraTokenList.forEach *)
LoadExtra(t) ==
  /\ cpu \in {t, NoTask}
  /\ tasks[t].pc = "mergeExtra"
  /\ tokenMap' = MergeExtra(tokenMap, extraTokenList)
  /\ mintGroup' = [mintGroup EXCEPT !.extra = AddAll(@, extraTokenList)]
  /\ tasks' = [tasks EXCEPT ![t].pc = "buildList"]
  /\ cpu' = Thread(t, "buildList")
  /\ UNCHANGED <<retryVars, epochVars, layoutVars, cfg, apiCacheTime, jupTokenList, now, tokenList, extraTokenList, ticks>>

(* load: this._tokenList = Array.from(this._tokenMap).map(...) *)
LoadList(t) ==
  /\ cpu \in {t, NoTask}
  /\ tasks[t].pc = "buildList"
  /\ tokenList' = MapValues(tokenMap)
  /\ tasks' = [tasks EXCEPT ![t].pc = "done"]
  /\ cpu' = Thread(t, "done")
  /\ UNCHANGED <<retryVars, epochVars, layoutVars, cfg, apiCacheTime, jupTokenList, now, tokenMap, mintGroup,
                 extraTokenList, ticks>>

(* ---------------------- TokenModule.getTokenInfo ---------------------- *)
(* the answers of the metadata API for one address: nothing or one record *)
MetaAnswers(mint) == {<<>>, <<ApiToken(mint, 7)>>}

(* the mint accounts the ledger may hold: owner program and decimals *)
Accounts ==
  { [owner |-> TOKEN_PROGRAM_ID, decimals |-> 6],
    [owner |-> TOKEN_2022_PROGRAM_ID, decimals |-> 9] }

(* the record stored for an address the metadata API knows *)
ApiRecord(apiTokenInfo) == [apiTokenInfo EXCEPT !.priority = 2]

(* the value getTokenInfo returns for an address the metadata API knows *)
ApiReturn(apiTokenInfo) == apiTokenInfo

(* fullInfo, synthesized from the mint account *)
FullInfo(mintStr, onlineInfo) ==
  [address |-> mintStr, ver |-> 0, symbol |-> Substring(mintStr, 0, 6),
   name |-> Substring(mintStr, 0, 6), decimals |-> onlineInfo.decimals,
   programId |-> onlineInfo.owner, t22 |-> FALSE, type |-> "unknown", priority |-> 0]

Done(task, tok, err) == [task EXCEPT !.pc = "done", !.tok = tok, !.err = err]

(* a lookup that never finds the address *)
TableLookupMiss(m, mintStr) == <<>>

(* const info = this._tokenMap.get(mintStr): <<>> or <<record>> *)
TableLookup(m, mintStr) == IF MapHas(m, mintStr) THEN <<MapGet(m, mintStr)>> ELSE <<>>

(* a resolution that goes on to the ledger whatever the API answered *)
AfterApiFallThrough(task, answer) ==
  [task EXCEPT !.pc = "awaitLedger", !.ledgerCalls = 1]

(* the call after api.getTokenInfo resolved: return the record, or ask the ledger *)
AfterApi(task, answer) ==
  IF answer # <<>> THEN Done(task, <<ApiReturn(answer[1])>>, "")
  ELSE [task EXCEPT !.pc = "awaitLedger", !.ledgerCalls = 1]

(* a null account that is reported as a result, not as an error *)
LedgerNullSilent(task) == Done(task, <<>>, "")

(* if (!onlineInfo) throw new Error(`mint address not found: ${mintStr}`) *)
LedgerNull(task) == Done(task, <<>>, "mint address not found")

(* getTokenInfo(mint), up to the first await *)
CallGetTokenInfo(t, mint) ==
  /\ cpu = NoTask
  /\ tasks[t].pc \in {"idle", "done"}
  /\ calls < MaxCalls
  /\ LET started == [IdleTask EXCEPT !.kind = "resolve", !.mint = mint,
                                     !.n = tasks[t].n + 1]
     IN tasks' = [tasks EXCEPT ![t] =
          IF mint = "" THEN Done(started, <<>>, "please input mint")
          ELSE IF TableLookup(tokenMap, mint) # <<>>
               THEN Done(started, TableLookup(tokenMap, mint), "")
          ELSE IF ToUpper(mint) = "SOL" THEN Done(started, <<SOL_INFO>>, "")
          ELSE [started EXCEPT !.pc = "awaitApi", !.apiCalls = 1]]
  /\ UNCHANGED <<retryVars, epochVars, layoutVars, cfg, apiCacheTime, jupTokenList, now, tokenList, tokenMap, mintGroup,
                 extraTokenList, cpu, ticks>>

(* api.getTokenInfo([mintStr]) resolves with `answer` *)
ApiTokenInfoOk(t, answer) ==
  /\ cpu = NoTask
  /\ tasks[t].pc = "awaitApi"
  /\ answer \in MetaAnswers(tasks[t].mint)
  /\ tasks' = [tasks EXCEPT ![t] =
       [AfterApi(tasks[t], answer) EXCEPT !.api = IF answer # <<>> THEN "found" ELSE "empty"]]
  /\ IF answer # <<>>
     THEN /\ mintGroup' = [mintGroup EXCEPT !.extra = @ \cup {tasks[t].mint}]
          /\ tokenMap' = MapSet(tokenMap, tasks[t].mint, ApiRecord(answer[1]))
     ELSE UNCHANGED <<mintGroup, tokenMap>>
  /\ UNCHANGED <<retryVars, epochVars, layoutVars, cfg, apiCacheTime, jupTokenList, now, tokenList, extraTokenList,
                 cpu, ticks>>

(* api.getTokenInfo([mintStr]) rejects: nothing catches it *)
ApiTokenInfoFail(t) ==
  /\ cpu = NoTask
  /\ tasks[t].pc = "awaitApi"
  /\ tasks' = [tasks EXCEPT ![t] =
       [Done(tasks[t], <<>>, "api request failed") EXCEPT !.api = "error"]]
  /\ UNCHANGED <<retryVars, epochVars, layoutVars, cfg, apiCacheTime, jupTokenList, now, tokenList, tokenMap, mintGroup,
                 extraTokenList, cpu, ticks>>

(* connection.getAccountInfo resolves with a mint account *)
LedgerAccount(t, onlineInfo) ==
  /\ cpu = NoTask
  /\ tasks[t].pc = "awaitLedger"
  /\ LET fullInfo == FullInfo(tasks[t].mint, onlineInfo)
     IN /\ mintGroup' = [mintGroup EXCEPT !.extra = @ \cup {tasks[t].mint}]
        /\ tokenMap' = MapSet(tokenMap, tasks[t].mint, fullInfo)
        /\ tasks' = [tasks EXCEPT ![t] =
             [Done(tasks[t], <<fullInfo>>, "") EXCEPT !.ledger = "found"]]
  /\ UNCHANGED <<retryVars, epochVars, layoutVars, cfg, apiCacheTime, jupTokenList, now, tokenList, extraTokenList,
                 cpu, ticks>>

(* connection.getAccountInfo resolves with null *)
LedgerAbsent(t) ==
  /\ cpu = NoTask
  /\ tasks[t].pc = "awaitLedger"
  /\ tasks' = [tasks EXCEPT ![t] = [LedgerNull(tasks[t]) EXCEPT !.ledger = "absent"]]
  /\ UNCHANGED <<retryVars, epochVars, layoutVars, cfg, apiCacheTime, jupTokenList, now, tokenList, tokenMap, mintGroup,
                 extraTokenList, cpu, ticks>>

(* connection.getAccountInfo rejects *)
LedgerFail(t) ==
  /\ cpu = NoTask
  /\ tasks[t].pc = "awaitLedger"
  /\ tasks' = [tasks EXCEPT ![t] =
       [Done(tasks[t], <<>>, "rpc request failed") EXCEPT !.ledger = "error"]]
  /\ UNCHANGED <<retryVars, epochVars, layoutVars, cfg, apiCacheTime, jupTokenList, now, tokenList, tokenMap, mintGroup,
                 extraTokenList, cpu, ticks>>

TickSteps == {1, DefaultCacheTime}

(* time passes *)
Tick(d) ==
  /\ cpu = NoTask
  /\ ticks < MaxTicks
  /\ ticks' = ticks + 1
  /\ now' = now + d
  /\ UNCHANGED <<retryVars, epochVars, layoutVars, cfg, apiCacheTime, jupTokenList, tokenList, tokenMap, mintGroup,
                 extraTokenList, tasks, cpu>>

(* the registry: load and getTokenInfo calls that overlap; they start   *)
(* within one millisecond                                                *)
Next ==
  \/ \E t \in Tasks, force \in BOOLEAN : CallFetchJupTokenList(t, "load", force)
  \/ \E t \in Tasks, list \in JupLists : JupListOk(t, list)
  \/ \E t \in Tasks : JupListFail(t)
  \/ \E t \in Tasks : LoadReset(t)
  \/ \E t \in Tasks : LoadJup(t)
  \/ \E t \in Tasks : LoadExtra(t)
  \/ \E t \in Tasks : LoadList(t)
  \/ \E t \in Tasks, mint \in Mints : CallGetTokenInfo(t, mint)
  \/ \E t \in Tasks, answer \in UNION {MetaAnswers(m) : m \in Mints} : ApiTokenInfoOk(t, answer)
  \/ \E t \in Tasks : ApiTokenInfoFail(t)
  \/ \E t \in Tasks, onlineInfo \in Accounts : LedgerAccount(t, onlineInfo)
  \/ \E t \in Tasks : LedgerAbsent(t)
  \/ \E t \in Tasks : LedgerFail(t)

(* a cache that is still valid at the same millisecond, and one that never is *)
InitRegistry == Init /\ cfg.apiCacheTime \in {<<>>, <<-1>>}

Spec == InitRegistry /\ [][Next]_vars

(* the token-list cache: fetchJupTokenList calls while time passes *)
NextCache ==
  \/ \E t \in Tasks, force \in BOOLEAN : CallFetchJupTokenList(t, "fetch", force)
  \/ \E t \in Tasks, list \in JupLists : JupListOk(t, list)
  \/ \E t \in Tasks : JupListFail(t)
  \/ \E d \in TickSteps : Tick(d)

InitCache == Init /\ extraTokenList = <<>>

SpecCache == InitCache /\ [][NextCache]_vars

(* ---------------------------- endlessRetry ---------------------------- *)
(* the values call() may resolve with, T being any type *)
Values == {Undef, "null", "0", "false", "", "data"}

(* result == undefined: loose equality holds for undefined and null only *)
LooseEqualsUndefined(v) == v \in {Undef, "null"}

(* endlessRetry(name, call, interval): the first pass of the loop, up to the *)
(* await on call()                                                          *)
EndlessRetry(i) ==
  /\ retryPc = "idle"
  /\ interval' = i
  /\ result' = Undef
  /\ invocations' = 1
  /\ retryPc' = "calling"
  /\ UNCHANGED <<registryVars, epochVars, layoutVars, sleeps, errorsLogged, outcomes,
                 returned>>

(* call() resolves with v: result = v, then the loop test, then either the *)
(* next invocation of call() or return result                              *)
CallResolves(v) ==
  /\ retryPc = "calling"
  /\ LooseEqualsUndefined(v) => invocations < MaxAttempts
  /\ result' = v
  /\ outcomes' = Append(outcomes, v)
  /\ IF LooseEqualsUndefined(v)
     THEN /\ invocations' = invocations + 1
          /\ UNCHANGED <<retryPc, returned>>
     ELSE /\ retryPc' = "returned"
          /\ returned' = <<v>>
          /\ UNCHANGED invocations
  /\ UNCHANGED <<registryVars, epochVars, layoutVars, interval, sleeps, errorsLogged>>

(* call() rejects: the catch block logs the error and awaits sleep(interval) *)
CallRejects ==
  /\ retryPc = "calling"
  /\ outcomes' = Append(outcomes, "reject")
  /\ errorsLogged' = errorsLogged + 1
  /\ retryPc' = "sleeping"
  /\ UNCHANGED <<registryVars, epochVars, layoutVars, interval, result, invocations,
                 sleeps, returned>>

(* sleep(interval) is over: the loop test (result is still undefined), then *)
(* the next invocation of call()                                            *)
SleepDone ==
  /\ retryPc = "sleeping"
  /\ invocations < MaxAttempts
  /\ sleeps' = sleeps + 1
  /\ now' = now + interval
  /\ IF LooseEqualsUndefined(result)
     THEN /\ invocations' = invocations + 1
          /\ retryPc' = "calling"
          /\ UNCHANGED returned
     ELSE /\ retryPc' = "returned"
          /\ returned' = <<result>>
          /\ UNCHANGED invocations
  /\ UNCHANGED <<cfg, apiCacheTime, jupTokenList, tokenList, tokenMap, mintGroup,
                 extraTokenList, tasks, cpu, ticks, epochVars, layoutVars, interval,
                 result, errorsLogged, outcomes>>

(* the intervals a caller passes: the default and a shorter one *)
Intervals == {DefaultInterval, 250}

NextRetry ==
  \/ \E i \in Intervals : EndlessRetry(i)
  \/ \E v \in Values : CallResolves(v)
  \/ CallRejects
  \/ SleepDone

(* the client with its default configuration and no registry call *)
InitQuiet ==
  /\ Init
  /\ cfg = [apiRequestInterval |-> DefaultCacheTime, apiCacheTime |-> <<>>]
  /\ extraTokenList = <<>>

SpecRetry == InitQuiet /\ [][NextRetry]_vars

(* ------------------- GfxCpmmClient.fetchEpochInfo --------------------- *)
(* an epoch cache that lives as long as the configured cache time *)
EpochCacheValidAtTtl(fetched, nowMs) == ~isCacheInvalidate(fetched, nowMs, apiCacheTime)

(* Date.now() - this._epochInfo.fetched <= 1000 * 30 *)
EpochCacheValid(fetched, nowMs) == nowMs - fetched <= EpochCacheTime

(* the epochs connection.getEpochInfo() may report *)
EpochValues == {500, 501}

(* fetchEpochInfo calls started so far *)
epochCalls == SumCalls(etasks, Tasks)

(* fetchEpochInfo(), up to the await: the cached value, or Date.now() is    *)
(* read and the ledger is asked                                             *)
CallFetchEpochInfo(t) ==
  /\ etasks[t].pc \in {"idle", "done"}
  /\ epochCalls < MaxCalls
  /\ LET started == [IdleEpochTask EXCEPT !.n = etasks[t].n + 1]
     IN etasks' = [etasks EXCEPT ![t] =
          IF epochInfo # <<>> /\ EpochCacheValid(epochInfo[1].fetched, now)
          THEN [started EXCEPT !.pc = "done", !.value = <<epochInfo[1].value>>]
          ELSE [started EXCEPT !.pc = "awaitEpoch", !.fetched = now, !.ledgerCalls = 1]]
  /\ UNCHANGED <<registryVars, retryVars, layoutVars, epochInfo>>

(* connection.getEpochInfo() resolves with v: the entry is assigned and its *)
(* value returned                                                           *)
GetEpochInfoOk(t, v) ==
  /\ etasks[t].pc = "awaitEpoch"
  /\ epochInfo' = <<[fetched |-> etasks[t].fetched, value |-> v]>>
  /\ etasks' = [etasks EXCEPT ![t] =
       [@ EXCEPT !.pc = "done", !.value = <<epochInfo'[1].value>>, !.ledger = "ok"]]
  /\ UNCHANGED <<registryVars, retryVars, layoutVars>>

(* connection.getEpochInfo() rejects: the assignment never happens *)
GetEpochInfoFail(t) ==
  /\ etasks[t].pc = "awaitEpoch"
  /\ etasks' = [etasks EXCEPT ![t] =
       [@ EXCEPT !.pc = "done", !.err = "rpc request failed", !.ledger = "error"]]
  /\ UNCHANGED <<registryVars, retryVars, layoutVars, epochInfo>>

EpochTickSteps == {1, EpochCacheTime}

(* the epoch cache: fetchEpochInfo calls while time passes *)
NextEpoch ==
  \/ \E t \in Tasks : CallFetchEpochInfo(t)
  \/ \E t \in Tasks, v \in EpochValues : GetEpochInfoOk(t, v)
  \/ \E t \in Tasks : GetEpochInfoFail(t)
  \/ \E d \in EpochTickSteps : Tick(d)

(* every configuration of the cache time, and no registry call *)
InitEpochCache == Init /\ extraTokenList = <<>>

SpecEpoch == InitEpochCache /\ [][NextEpoch]_vars

(* ------------------------- marshmallow layouts ------------------------ *)
(* a field of a layout: its kind, its property name ("" when it has none), *)
(* the span in bytes of one value, and <<>> or <<count>> for a sequence     *)
Field(kind, property, span) ==
  [kind |-> kind, property |-> property, span |-> span, repeat |-> <<>>]

blob(length) == Field("blob", "", length)
u8(property) == Field("uint", property, 1)
u16(property) == Field("uint", property, 2)
u64(property) == Field("uint", property, 8)
u128(property) == Field("uint", property, 16)
bool(property) == Field("bool", property, 1)
publicKey(property) == Field("publicKey", property, 32)
seq(elementLayout, count, property) ==
  [elementLayout EXCEPT !.property = property, !.repeat = <<count>>]
struct(fields) == fields

CpmmConfigInfoLayout ==
  struct(<<
    blob(8),
    u8("bump"),
    bool("disableCreatePool"),
    u16("index"),
    u64("tradeFeeRate"),
    u64("protocolFeeRate"),
    u64("fundFeeRate"),
    u64("createPoolFee"),
    publicKey("protocolOwner"),
    publicKey("fundOwner"),
    seq(u64(""), 16, "")
  >>)

CpmmPoolInfoLayout ==
  struct(<<
    blob(8),
    publicKey("configId"),
    publicKey("poolCreator"),
    publicKey("vaultA"),
    publicKey("vaultB"),
    publicKey("mintLp"),
    publicKey("mintA"),
    publicKey("mintB"),
    publicKey("mintProgramA"),
    publicKey("mintProgramB"),
    publicKey("observationId"),
    u8("bump"),
    u8("status"),
    u8("lpDecimals"),
    u8("mintDecimalA"),
    u8("mintDecimalB"),
    u64("lpAmount"),
    u64("protocolFeesMintA"),
    u64("protocolFeesMintB"),
    u64("fundFeesMintA"),
    u64("fundFeesMintB"),
    u64("openTime"),
    u64("recentEpoch"),
    u128("tradeFeesTokenA"),
    u128("tradeFeesTokenB"),
    u128("cumulativeVolumeTokenA"),
    u128("cumulativeVolumeTokenB"),
    seq(u64(""), 23, "")
  >>)

Schemas == {"config", "pool"}

Layout(s) == IF s = "config" THEN CpmmConfigInfoLayout ELSE CpmmPoolInfoLayout

(* the bytes a field takes *)
Width(f) == IF f.repeat = <<>> THEN f.span ELSE f.span * f.repeat[1]

(* the total width of the fields *)
RECURSIVE TotalWidth(_)
TotalWidth(fields) ==
  IF fields = <<>> THEN 0 ELSE Width(Head(fields)) + TotalWidth(Tail(fields))

(* the bytes before field i *)
OffsetOf(fields, i) == TotalWidth(SubSeq(fields, 1, i - 1))

Zeros(n) == [i \in 1..n |-> 0]

Reverse(q) == [i \in 1..Len(q) |-> q[Len(q) + 1 - i]]

(* a number as its base-256 digits, most significant first, no leading zero *)
RECURSIVE StripLeadingZeros(_)
StripLeadingZeros(digits) ==
  IF digits = <<>> \/ Head(digits) # 0 THEN digits ELSE StripLeadingZeros(Tail(digits))

(* a little-endian unsigned integer *)
DecodeUint(bytes) == StripLeadingZeros(Reverse(bytes))

EncodeUint(digits, span) == Reverse(Zeros(span - Len(digits)) \o digits)

(* a boolean: any byte other than 0 reads as true *)
DecodeBool(bytes) == bytes[1] # 0

EncodeBool(b) == <<IF b THEN 1 ELSE 0>>

(* an account identifier in base-58 style: one leading mark per leading     *)
(* zero byte, then the number the remaining bytes spell                     *)
DecodePublicKey(bytes) ==
  [ones |-> Len(bytes) - Len(StripLeadingZeros(bytes)), digits |-> StripLeadingZeros(bytes)]

EncodePublicKey(key) == Zeros(key.ones) \o key.digits

DecodeValue(f, bytes) ==
  CASE f.kind = "uint" -> DecodeUint(bytes)
    [] f.kind = "bool" -> DecodeBool(bytes)
    [] f.kind = "publicKey" -> DecodePublicKey(bytes)
    [] OTHER -> bytes

EncodeValue(f, value) ==
  CASE f.kind = "uint" -> EncodeUint(value, f.span)
    [] f.kind = "bool" -> EncodeBool(value)
    [] f.kind = "publicKey" -> EncodePublicKey(value)
    [] OTHER -> value

(* a scalar, or the ordered list of the values of a sequence field *)
DecodeField(f, bytes) ==
  IF f.repeat = <<>> THEN DecodeValue(f, bytes)
  ELSE [k \in 1..f.repeat[1] |->
          DecodeValue(f, SubSeq(bytes, (k - 1) * f.span + 1, k * f.span))]

RECURSIVE EncodeValues(_, _)
EncodeValues(f, values) ==
  IF values = <<>> THEN <<>>
  ELSE EncodeValue(f, Head(values)) \o EncodeValues(f, Tail(values))

EncodeField(f, value) ==
  IF f.repeat = <<>> THEN EncodeValue(f, value) ELSE EncodeValues(f, value)

(* decode: the named fields, read in layout order; fields without a name   *)
(* are skipped                                                              *)
Decode(fields, b) ==
  [name \in {fields[i].property : i \in 1..Len(fields)} \ {""} |->
     LET i == CHOOSE j \in 1..Len(fields) : fields[j].property = name
     IN DecodeField(fields[i],
                    SubSeq(b, OffsetOf(fields, i) + 1, OffsetOf(fields, i) + Width(fields[i])))]

(* encode: the fields in layout order; fields without a name are zero-filled *)
RECURSIVE Encode(_, _)
Encode(fields, record) ==
  IF fields = <<>> THEN <<>>
  ELSE (IF Head(fields).property = "" THEN Zeros(Width(Head(fields)))
        ELSE EncodeField(Head(fields), record[Head(fields).property]))
       \o Encode(Tail(fields), record)

(* the byte values tried at one position of a buffer *)
ByteSamples == {1, 255}

(* a buffer of zeros but for byte v at position p *)
OneHot(width, p, v) == [i \in 1..width |-> IF i = p THEN v ELSE 0]

(* a buffer with no zero byte *)
Ramp(width) == [i \in 1..width |-> ((i * 7) % 255) + 1]

(* the byte positions of field i *)
Positions(fields, i) == (OffsetOf(fields, i) + 1)..(OffsetOf(fields, i) + Width(fields[i]))

(* the byte positions of the named fields *)
NamedPositions(fields) ==
  UNION {Positions(fields, i) : i \in {j \in 1..Len(fields) : fields[j].property # ""}}

(* the byte positions of the boolean fields *)
BoolPositions(fields) ==
  UNION {Positions(fields, i) : i \in {j \in 1..Len(fields) : fields[j].kind = "bool"}}

(* a buffer as an encoder writes it: no zero byte in the named fields, 1 in *)
(* the booleans, zeros in the fields without a name                         *)
Written(fields) ==
  [i \in 1..TotalWidth(fields) |->
     IF i \in BoolPositions(fields) THEN 1
     ELSE IF i \in NamedPositions(fields) THEN Ramp(TotalWidth(fields))[i]
     ELSE 0]

(* the buffers handed to decode: of the total width of the layout, and one *)
(* that is a byte short                                                     *)
Buffers(s) ==
  LET width == TotalWidth(Layout(s))
  IN {Zeros(width), Ramp(width), Written(Layout(s)), Zeros(width - 1)}
       \cup {OneHot(width, p, v) : p \in 1..width, v \in ByteSamples}

(* Layout.decode(b) *)
LayoutDecode(s, b) ==
  /\ layoutPc = "idle"
  /\ schema' = s
  /\ buf' = b
  /\ IF Len(b) = TotalWidth(Layout(s))
     THEN /\ decoded' = Decode(Layout(s), b)
          /\ layoutPc' = "decoded"
     ELSE /\ decoded' = <<>>
          /\ layoutPc' = "failed"
  /\ UNCHANGED <<registryVars, retryVars, epochVars, encoded>>

(* Layout.encode(record) of the record just decoded *)
LayoutEncode ==
  /\ layoutPc = "decoded"
  /\ encoded' = Encode(Layout(schema), decoded)
  /\ layoutPc' = "encoded"
  /\ UNCHANGED <<registryVars, retryVars, epochVars, schema, buf, decoded>>

NextLayout ==
  \/ \E s \in Schemas : \E b \in Buffers(s) : LayoutDecode(s, b)
  \/ LayoutEncode

SpecLayout == InitQuiet /\ [][NextLayout]_vars

(* ====================================================================== *)
(*                              properties                                *)
(* ====================================================================== *)
HasAddr(list, a) == \E i \in 1..Len(list) : list[i].address = a

(* the last entry of `list` with address a *)
LastWith(list, a) ==
  list[CHOOSE i \in 1..Len(list) :
         /\ list[i].address = a
         /\ \A j \in (i + 1)..Len(list) : list[j].address # a]

SourceAddrs(jup, extra) ==
  {Native} \cup {jup[i].address : i \in 1..Len(jup)}
           \cup {extra[i].address : i \in 1..Len(extra)}

(* rec is the version of address a that the last source holding a supplies *)
FromLastSource(rec, jup, extra, a) ==
  IF HasAddr(extra, a)
  THEN rec.address = a /\ rec.type = "extra" /\ rec.ver = LastWith(extra, a).ver
  ELSE IF HasAddr(jup, a)
  THEN rec.address = a /\ rec.type = "jupiter" /\ rec.ver = LastWith(jup, a).ver
  ELSE rec = SOL_INFO

(* the step in which the load of task t completes *)
LoadCompletes(t) == tasks[t].pc = "buildList" /\ tasks'[t].pc = "done"

(* the step in which a call starts in slot t *)
Starts(t) == tasks'[t].n = tasks[t].n + 1

OnlySlot(t) == \A u \in Tasks \ {t} : tasks[u].n = 0

(* C1: when a load completes, every source address is stored, and the     *)
(* record stored under an address is the version of the last source that  *)
(* holds it, in the order native -> external -> curated.                  *)
C1_Precedence ==
  [][\A t \in Tasks : LoadCompletes(t) =>
       \A a \in SourceAddrs(tasks'[t].jup, extraTokenList') :
          /\ MapHas(tokenMap', a)
          /\ FromLastSource(MapGet(tokenMap', a), tasks'[t].jup, extraTokenList', a)]_vars

C1_Witness ==
  \E t \in Tasks :
    /\ tasks[t].kind = "load" /\ tasks[t].pc = "done"
    /\ HasAddr(tasks[t].jup, Native) /\ HasAddr(extraTokenList, Native)
    /\ MapHas(tokenMap, Native)
    /\ MapGet(tokenMap, Native).type = "extra"
    /\ MapGet(tokenMap, Native).ver = LastWith(extraTokenList, Native).ver

(* C2: when a load completes, official holds exactly the native address,  *)
(* jup exactly the addresses of the list the load used, extra exactly the *)
(* addresses of the curated list, overwritten records included.           *)
C2_Provenance ==
  [][\A t \in Tasks : LoadCompletes(t) =>
       /\ mintGroup'.official = {Native}
       /\ mintGroup'.jup = {tasks'[t].jup[i].address : i \in 1..Len(tasks'[t].jup)}
       /\ mintGroup'.extra = {extraTokenList'[i].address : i \in 1..Len(extraTokenList')}]_vars

C2_Witness ==
  \E t \in Tasks :
    /\ tasks[t].kind = "load" /\ tasks[t].pc = "done"
    /\ HasAddr(tasks[t].jup, Native) /\ HasAddr(extraTokenList, Native)
    /\ Native \in mintGroup.official /\ Native \in mintGroup.jup /\ Native \in mintGroup.extra
    /\ MapGet(tokenMap, Native).type = "extra"

(* C3: when a load completes, the keys of the table, the addresses of the *)
(* token list and the members of the provenance sets are those of the     *)
(* sources of that load and no others.                                    *)
C3_Rebuild ==
  [][\A t \in Tasks : LoadCompletes(t) =>
       LET src == SourceAddrs(tasks'[t].jup, extraTokenList')
       IN /\ MapKeys(tokenMap') = src
          /\ {tokenList'[i].address : i \in 1..Len(tokenList')} = src
          /\ (mintGroup'.official \cup mintGroup'.jup \cup mintGroup'.extra) \subseteq src]_vars

(* a lazily resolved address is gone after a later load *)
C3_Witness ==
  \E t \in Tasks, u \in Tasks :
    /\ tasks[t].kind = "load" /\ tasks[t].pc = "done"
    /\ tasks[u].kind = "resolve" /\ tasks[u].pc = "done"
    /\ tasks[u].mint = MintA /\ tasks[u].err = "" /\ tasks[u].apiCalls = 1
    /\ ~MapHas(tokenMap, MintA)
    /\ MintA \notin mintGroup.extra

(* the snapshot before the first load *)
EmptySnapshot ==
  /\ tokenList = <<>>
  /\ mintGroup.official = {} /\ mintGroup.jup = {}
  /\ MapKeys(tokenMap) = mintGroup.extra

Lazy(rec) == rec.priority = 2 \/ rec.type = "unknown"

(* the complete snapshot a load with external list `jup` publishes; a lazy *)
(* resolution may since have added or replaced records of the table       *)
SnapshotOf(jup) ==
  LET src == SourceAddrs(jup, extraTokenList)
  IN /\ Len(tokenList) = Cardinality(src)
     /\ {tokenList[i].address : i \in 1..Len(tokenList)} = src
     /\ \A i \in 1..Len(tokenList) :
          FromLastSource(tokenList[i], jup, extraTokenList, tokenList[i].address)
     /\ mintGroup.official = {Native}
     /\ mintGroup.jup = {jup[i].address : i \in 1..Len(jup)}
     /\ {extraTokenList[i].address : i \in 1..Len(extraTokenList)} \subseteq mintGroup.extra
     /\ \A a \in src :
          /\ MapHas(tokenMap, a)
          /\ \/ \E i \in 1..Len(tokenList) : tokenList[i] = MapGet(tokenMap, a)
             \/ Lazy(MapGet(tokenMap, a))

(* C4: whenever the thread is free (every task is at a suspension point), *)
(* the table, the token list and the provenance sets are the initial      *)
(* snapshot or the complete snapshot of one load, never a partial merge.  *)
C4_NoPartialSnapshot ==
  cpu = NoTask => (EmptySnapshot \/ \E jup \in JupLists : SnapshotOf(jup))

(* a load suspended before its merge while another load's snapshot is published *)
C4_Witness ==
  \E t \in Tasks, u \in Tasks :
    /\ cpu = NoTask
    /\ tasks[t].kind = "load" /\ tasks[t].pc = "resume"
    /\ tasks[u].kind = "load" /\ tasks[u].pc = "done"
    /\ tasks[t].jup # tasks[u].jup
    /\ SnapshotOf(tasks[u].jup)
    /\ Len(tokenList) > 1

(* C5: a load whose external-list request failed does not complete.       *)
C5_LoadNeedsList ==
  \A t \in Tasks : (tasks[t].kind = "load" /\ tasks[t].failed) => tasks[t].pc # "done"

(* C6: a call without forceUpdate returns the cached list and issues no   *)
(* request iff an entry exists and now - fetched <= TTL; otherwise it     *)
(* issues exactly one request.                                            *)
C6_TtlWindow ==
  [][\A t \in Tasks :
       /\ (Starts(t) /\ ~tasks'[t].force) =>
            IF jupTokenList # <<>> /\ now - jupTokenList[1].fetched <= apiCacheTime
            THEN /\ tasks'[t].pc = "done"
                 /\ tasks'[t].jup = jupTokenList[1].data
                 /\ tasks'[t].apiCalls = 0
            ELSE /\ tasks'[t].pc = "awaitJup"
                 /\ tasks'[t].apiCalls = 1
       /\ ~Starts(t) => tasks'[t].apiCalls = tasks[t].apiCalls]_vars

(* a call served from an entry whose age is exactly the TTL *)
C6_Witness ==
  \E t \in Tasks :
    /\ OnlySlot(t) /\ tasks[t].n = 2
    /\ tasks[t].pc = "done" /\ ~tasks[t].force /\ tasks[t].apiCalls = 0
    /\ jupTokenList # <<>>
    /\ apiCacheTime > 0
    /\ now - jupTokenList[1].fetched = apiCacheTime
    /\ tasks[t].jup = jupTokenList[1].data

(* C7: the cache entry changes only in the step in which a request         *)
(* succeeds, to {time of completion, fetched list}; a failing request      *)
(* leaves the entry as it was.                                             *)
C7_CacheWrites ==
  [][/\ jupTokenList' # jupTokenList =>
          \E t \in Tasks :
             /\ tasks[t].pc = "awaitJup" /\ tasks'[t].pc # "awaitJup"
             /\ ~tasks'[t].failed
             /\ jupTokenList' = <<[fetched |-> now, data |-> tasks'[t].jup]>>
     /\ \A t \in Tasks :
          (tasks[t].pc = "awaitJup" /\ tasks'[t].failed) => jupTokenList' = jupTokenList]_vars

(* a refresh of a stale entry failed and the entry is still there *)
C7_Witness ==
  \E t \in Tasks :
    /\ OnlySlot(t) /\ tasks[t].n = 2
    /\ tasks[t].pc = "done" /\ tasks[t].failed
    /\ jupTokenList # <<>>
    /\ jupTokenList[1].data # <<>>
    /\ jupTokenList[1].fetched < now

(* C8: a call whose request failed completes with the error.               *)
C8_ErrorSurfaces ==
  \A t \in Tasks : (tasks[t].failed /\ tasks[t].pc # "awaitJup") => tasks[t].err # ""

(* C9: with the cache time configured as -1, a call without forceUpdate    *)
(* that finds an entry issues no request.                                  *)
C9_NeverRefetch ==
  [][\A t \in Tasks :
       (/\ Starts(t) /\ ~tasks'[t].force
        /\ cfg.apiRequestInterval = -1 /\ cfg.apiCacheTime = <<-1>>
        /\ jupTokenList # <<>>)
       => tasks'[t].apiCalls = 0]_vars

(* C10: with the cache time configured as 0, every call issues a request.  *)
C10_AlwaysRefetch ==
  [][\A t \in Tasks :
       (Starts(t) /\ cfg.apiRequestInterval = 0 /\ cfg.apiCacheTime = <<0>>)
       => tasks'[t].apiCalls = 1]_vars

(* ---------------------------- getTokenInfo ---------------------------- *)
(* the call in slot t is a getTokenInfo call *)
Resolves(t) == tasks[t].kind = "resolve"

(* this step issues the metadata-API request of the call in slot t *)
AsksApi(t) == tasks'[t].apiCalls = 1 /\ (Starts(t) \/ tasks[t].apiCalls = 0)

(* this step issues the ledger request of the call in slot t *)
AsksLedger(t) == tasks'[t].ledgerCalls = 1 /\ (Starts(t) \/ tasks[t].ledgerCalls = 0)

(* C11: getTokenInfo(address) for an address the table holds returns the  *)
(* stored record at once, issues no metadata-API and no ledger request,    *)
(* and leaves the table, the provenance sets, the list and the cached      *)
(* token list unchanged.                                                   *)
C11_TableHit ==
  [][\A t \in Tasks :
       (Starts(t) /\ tasks'[t].kind = "resolve" /\ MapHas(tokenMap, tasks'[t].mint))
       => /\ tasks'[t].pc = "done"
          /\ tasks'[t].err = ""
          /\ tasks'[t].tok = <<MapGet(tokenMap, tasks'[t].mint)>>
          /\ tasks'[t].apiCalls = 0
          /\ tasks'[t].ledgerCalls = 0
          /\ UNCHANGED <<tokenMap, tokenList, mintGroup, jupTokenList>>]_vars

(* a call answered from the table with a record a load put there *)
C11_Witness ==
  \E t \in Tasks :
    /\ Resolves(t) /\ tasks[t].pc = "done" /\ tasks[t].mint = MintA
    /\ tasks[t].apiCalls = 0 /\ tasks[t].ledgerCalls = 0
    /\ tasks[t].tok # <<>> /\ tasks[t].tok[1].type = "jupiter"
    /\ MapHas(tokenMap, MintA) /\ tasks[t].tok[1] = MapGet(tokenMap, MintA)

(* C12: the tiers are tried in the order table, metadata API, ledger: the  *)
(* API is asked only by a call that found the table without the address,   *)
(* the ledger is asked only at the completion of the API request with an   *)
(* empty result, and never by a call the API answered with a record.       *)
C12_TierOrder ==
  [][\A t \in Tasks :
       /\ AsksApi(t) => (Starts(t) /\ ~MapHas(tokenMap, tasks'[t].mint))
       /\ AsksLedger(t) => /\ ~Starts(t)
                           /\ tasks[t].pc = "awaitApi"
                           /\ tasks[t].apiCalls = 1
                           /\ tasks'[t].api = "empty"
       /\ tasks'[t].api = "found" => tasks'[t].ledgerCalls = 0
       /\ tasks'[t].ledgerCalls = 1 => tasks'[t].apiCalls = 1]_vars

(* a call that went through the three tiers and ended on the ledger *)
C12_Witness ==
  \E t \in Tasks :
    /\ Resolves(t) /\ tasks[t].pc = "done" /\ tasks[t].api = "empty"
    /\ tasks[t].apiCalls = 1 /\ tasks[t].ledgerCalls = 1 /\ tasks[t].ledger = "found"

(* C13: when the metadata API answers with a record for an address the     *)
(* table lacks, getTokenInfo returns that record with priority 2, the      *)
(* table then holds under the address the very record returned, and the    *)
(* extra provenance set contains the address.                              *)
C13_ApiRecordReturned ==
  [][\A t \in Tasks :
       (tasks[t].pc = "awaitApi" /\ tasks'[t].api = "found")
       => /\ tasks'[t].pc = "done"
          /\ tasks'[t].tok # <<>>
          /\ tasks'[t].tok[1].priority = 2
          /\ MapHas(tokenMap', tasks[t].mint)
          /\ MapGet(tokenMap', tasks[t].mint) = tasks'[t].tok[1]
          /\ tasks[t].mint \in mintGroup'.extra]_vars

(* C14: getTokenInfo fails only with "please input mint" or with "mint     *)
(* address not found": a failed metadata-API request is swallowed and the  *)
(* ledger is asked next, so the not-found error comes only after the       *)
(* table, the API and the ledger were all tried.                           *)
C14_OnlyTwoErrors ==
  \A t \in Tasks :
    Resolves(t) =>
      /\ tasks[t].err \in {"", "please input mint", "mint address not found"}
      /\ (tasks[t].api = "error" /\ tasks[t].pc = "done") => tasks[t].ledgerCalls = 1
      /\ tasks[t].err = "mint address not found"
           => (tasks[t].apiCalls = 1 /\ tasks[t].ledgerCalls = 1)

(* C15: for an address absent from the table, for which the API answers    *)
(* nothing and the ledger holds no account, getTokenInfo fails with "mint  *)
(* address not found" after one API request and then one ledger request,   *)
(* and neither of its steps changes the table or the provenance sets.      *)
C15_UnknownMint ==
  [][\A t \in Tasks :
       /\ (tasks[t].pc = "awaitApi" /\ tasks'[t].api = "empty")
            => UNCHANGED <<tokenMap, mintGroup, tokenList>>
       /\ (tasks[t].pc = "awaitLedger" /\ tasks'[t].ledger = "absent")
            => /\ tasks'[t].pc = "done"
               /\ tasks'[t].err = "mint address not found"
               /\ tasks'[t].tok = <<>>
               /\ tasks[t].api = "empty"
               /\ tasks'[t].apiCalls = 1
               /\ tasks'[t].ledgerCalls = 1
               /\ UNCHANGED <<tokenMap, mintGroup, tokenList>>]_vars

(* a call that failed because no tier knows the address *)
C15_Witness ==
  \E t \in Tasks :
    /\ Resolves(t) /\ tasks[t].pc = "done" /\ tasks[t].ledger = "absent"
    /\ tasks[t].err = "mint address not found" /\ tasks[t].mint = MintA
    /\ ~MapHas(tokenMap, MintA)

(* C16: for an address absent from the table and from the API whose mint   *)
(* account is on the ledger, getTokenInfo returns a record with priority   *)
(* 0, type "unknown", no tag, symbol and name equal to the first 6         *)
(* characters of the address, and the decimals and owner program of the    *)
(* account; the table then holds that record under the address and the     *)
(* extra provenance set contains the address.                              *)
C16_LedgerRecord ==
  [][\A t \in Tasks :
       (tasks[t].pc = "awaitLedger" /\ tasks'[t].ledger = "found")
       => /\ tasks'[t].pc = "done"
          /\ tasks'[t].err = ""
          /\ tasks[t].api = "empty"
          /\ tasks'[t].tok # <<>>
          /\ LET rec == tasks'[t].tok[1]
                 m == tasks[t].mint
             IN /\ rec.address = m
                /\ rec.priority = 0
                /\ rec.type = "unknown"
                /\ rec.t22 = FALSE
                /\ Len(rec.symbol) = 6
                /\ \A i \in 1..6 : rec.symbol[i] = Chars(m)[i]
                /\ rec.name = rec.symbol
                /\ \E acct \in Accounts :
                     rec.decimals = acct.decimals /\ rec.programId = acct.owner
                /\ MapHas(tokenMap', m)
                /\ MapGet(tokenMap', m) = rec
                /\ m \in mintGroup'.extra]_vars

(* a record synthesized from a Token-2022 mint account, now in the table *)
C16_Witness ==
  \E t \in Tasks :
    /\ Resolves(t) /\ tasks[t].pc = "done" /\ tasks[t].ledger = "found"
    /\ tasks[t].tok # <<>>
    /\ tasks[t].tok[1].programId = TOKEN_2022_PROGRAM_ID
    /\ tasks[t].tok[1].decimals = 9
    /\ MapHas(tokenMap, MintA) /\ MapGet(tokenMap, MintA) = tasks[t].tok[1]
    /\ MintA \in mintGroup.extra

(* C20: whenever no load() is inside its synchronous merge, tokenList      *)
(* holds exactly the values of tokenMap, after any sequence of load() and  *)
(* getTokenInfo() calls, lazy resolutions included.                        *)
C20_ListMirrorsMap ==
  cpu = NoTask => tokenList = MapValues(tokenMap)

(* ---------------------------- endlessRetry ---------------------------- *)
(* the invocations of call() that rejected *)
Rejects == {i \in 1..Len(outcomes) : outcomes[i] = "reject"}

(* C17: endlessRetry never completes with an error and completes on the    *)
(* first invocation of call() that succeeds, whatever value it succeeds    *)
(* with: a successful invocation is the last one, its value is returned,   *)
(* and the call returns after (failed attempts + 1) invocations and one    *)
(* sleep after each failed attempt.                                        *)
C17_FirstSuccessReturns ==
  /\ \A i \in 1..Len(outcomes) :
       outcomes[i] # "reject"
       => /\ i = Len(outcomes)
          /\ retryPc = "returned"
          /\ returned = <<outcomes[i]>>
  /\ retryPc = "returned"
       => /\ invocations = Cardinality(Rejects) + 1
          /\ sleeps = Cardinality(Rejects)

(* --------------------------- fetchEpochInfo --------------------------- *)
EpochStarts(t) == etasks'[t].n = etasks[t].n + 1

(* C18: fetchEpochInfo asks the ledger if and only if there is no epoch    *)
(* cache entry or the entry is more than 30000 ms old (at 30000 ms it is   *)
(* still served), whatever cache time the client was configured with; when *)
(* the ledger request fails the entry stays as it was and the call ends    *)
(* with the error.                                                         *)
C18_EpochCache ==
  [][\A t \in Tasks :
       /\ EpochStarts(t)
            => /\ etasks'[t].ledgerCalls = 1
                    <=> (epochInfo = <<>> \/ now - epochInfo[1].fetched > 30000)
               /\ etasks'[t].ledgerCalls \in {0, 1}
               /\ etasks'[t].ledgerCalls = 1 => etasks'[t].pc = "awaitEpoch"
               /\ etasks'[t].ledgerCalls = 0
                    => /\ etasks'[t].pc = "done"
                       /\ etasks'[t].err = ""
                       /\ etasks'[t].value = <<epochInfo[1].value>>
               /\ epochInfo' = epochInfo
       /\ ~EpochStarts(t) => etasks'[t].ledgerCalls = etasks[t].ledgerCalls
       /\ (etasks[t].pc = "awaitEpoch" /\ etasks'[t].ledger = "error")
            => /\ epochInfo' = epochInfo
               /\ etasks'[t].pc = "done"
               /\ etasks'[t].err # ""
               /\ etasks'[t].value = <<>>]_vars

(* with a cache time of 1 ms: a call served from the entry, then, past     *)
(* 30000 ms, a call whose ledger request failed and left the entry alone   *)
C18_Witness ==
  \E t, u \in Tasks :
    /\ cfg.apiCacheTime = <<1>>
    /\ epochInfo # <<>>
    /\ now - epochInfo[1].fetched = 30001
    /\ etasks[t].pc = "done" /\ etasks[t].n > 0 /\ etasks[t].ledgerCalls = 0
    /\ etasks[t].value = <<epochInfo[1].value>>
    /\ etasks[u].pc = "done" /\ etasks[u].ledger = "error" /\ etasks[u].err # ""

(* ------------------------------ layouts ------------------------------- *)
(* C19: for CpmmConfigInfoLayout and CpmmPoolInfoLayout and every buffer   *)
(* of the total width, decode followed by encode reproduces the buffer     *)
(* byte for byte, the 8-byte prefix and the reserved words included.       *)
C19_RoundTrip ==
  layoutPc = "encoded" => encoded = buf

(* --------------------------- provenance ------------------------------- *)
(* C21: whenever no load() is inside its synchronous body, the key set of  *)
(* the token table equals the union of the provenance sets official, jup   *)
(* and extra, under any interleaving of load() and getTokenInfo() calls,   *)
(* a getTokenInfo that completes after a load() replaced the snapshot      *)
(* included.                                                               *)
C21_KeysHaveProvenance ==
  cpu = NoTask
    => MapKeys(tokenMap) = mintGroup.official \cup mintGroup.jup \cup mintGroup.extra

(* the only getTokenInfo call was still waiting for the API when the only  *)
(* load() merged a list holding its address, and it has since written its  *)
(* record over the one the load stored                                     *)
C21_Witness ==
  \E t, u \in Tasks :
    /\ cpu = NoTask
    /\ tasks[t].kind = "load" /\ tasks[t].pc = "done" /\ tasks[t].n = 1
    /\ HasAddr(tasks[t].jup, MintA)
    /\ tasks[u].kind = "resolve" /\ tasks[u].pc = "done" /\ tasks[u].n = 1
    /\ tasks[u].mint = MintA /\ tasks[u].api = "found"
    /\ MapHas(tokenMap, MintA) /\ MapGet(tokenMap, MintA).priority = 2
    /\ MintA \in mintGroup.jup /\ MintA \in mintGroup.extra
    /\ Native \in mintGroup.official

====
